---- MODULE Spec2Model ----
(***************************************************************************)
(* The sprite render path of bevy_sprite2 (render/mod.rs): per frame,      *)
(* extract_atlases and extract_sprites copy the drawable sprites of the    *)
(* main world into ExtractedSprite records of the render world,            *)
(* prepare_sprites batches them into the shared vertex and index buffers,  *)
(* queue_sprites fills the material bind-group cache and the views'        *)
(* Transparent2d phases, and DrawSprite::draw issues the GPU commands of   *)
(* one queued item.                                                        *)
(*                                                                         *)
(* Numbers.  Pixel coordinates are integers.  The unit quad has corners at *)
(* +-1/2, so vertex positions are kept in doubled units (2 * coordinate).  *)
(* A UV component is the quotient of two pixel coordinates; it is kept as  *)
(* the pair <<numerator, denominator>> the division is applied to.         *)
(* A GlobalTransform is a translation <<tx, ty>> (no rotation or scale).   *)
(***************************************************************************)
EXTENDS Integers, Sequences, FiniteSets

\* ------------------------------------------------------------------ bounds
MaxEntities == 2
MaxViews == 2
MaxFrames == 2

Entities == 1..MaxEntities
Views == 1..MaxViews

\* ------------------------------------------------------- Option and helpers
None == <<>>
Some(x) == <<x>>
unwrap(o) == o[1]
unwrap_or(o, d) == IF o = None THEN d ELSE o[1]

Vec2(x, y) == <<x, y>>
Rect(mn, mx) == [min |-> mn, max |-> mx]
\* Rect::size(): width and height
RectSize(r) == Vec2(r.max[1] - r.min[1], r.max[2] - r.min[2])

RECURSIVE SeqFilter(_, _)
\* the subsequence of s whose elements are in the set keep
SeqFilter(s, keep) ==
  IF s = <<>> THEN <<>>
  ELSE IF Head(s) \in keep THEN <<Head(s)>> \o SeqFilter(Tail(s), keep)
       ELSE SeqFilter(Tail(s), keep)

\* ------------------------------------------------------------------ assets
\* Handle<Image> identities and Handle<TextureAtlas> identities
ImageHandles == {"imgA", "imgB"}
AtlasHandles == {"atlas"}

\* Image::texture_descriptor.size of a loaded image
ImageSize(h) == IF h = "imgA" THEN Vec2(64, 64) ELSE Vec2(2, 4)

\* the TextureAtlas asset behind an atlas handle: its texture, its full size
\* and its table of sub-rects
TextureAtlas(a) ==
  [texture |-> "imgA",
   size |-> Vec2(256, 256),
   textures |-> <<Rect(Vec2(0, 0), Vec2(32, 32)), Rect(Vec2(32, 32), Vec2(96, 96))>>]

\* the components a scene entity can carry.  A Sprite entity has a
\* Handle<Image> and an optional custom size, a TextureAtlasSprite entity has
\* a Handle<TextureAtlas> and an index into the atlas' table (0-based; 2 is
\* past the end of the table above).
SpriteComponents ==
  {[kind |-> "sprite", handle |-> "imgA", custom_size |-> None, index |-> 0],
   [kind |-> "sprite", handle |-> "imgB", custom_size |-> Some(Vec2(2, 2)), index |-> 0]}
AtlasComponents ==
  {[kind |-> "atlas", handle |-> "atlas", custom_size |-> None, index |-> i] : i \in {1, 2}}
Components == SpriteComponents \cup AtlasComponents

\* the GlobalTransform of a scene entity: the first entity sits at the
\* origin (identity matrix), entity e is translated by (e - 1, 0)
GlobalTransform(e) == Vec2(e - 1, 0)


\* ------------------------------------------------------------------- state
VARIABLES
  scene,                \* main world: entity -> None | Some(component)
  images,               \* Assets<Image>: the image handles that are loaded
  texture_atlases,      \* Assets<TextureAtlas>: the atlas handles that are loaded
  views,                \* render world: views with a RenderPhase<Transparent2d>
  view_uniform_offsets, \* render world: views with a ViewUniformOffset
  view_uniforms,        \* ViewUniforms: TRUE iff uniforms.binding() is Some
  pipeline_ready,       \* RenderPipelineCache: TRUE iff the pipeline is compiled
  extracted_sprites,    \* render world: the ExtractedSprite records, in query order
  sprite_meta,          \* SpriteMeta: vertices, indices, view_bind_group
  image_bind_groups,    \* ImageBindGroups.values: Handle<Image> -> bind group
  bind_groups,          \* RenderDevice: the descriptors of all created bind groups
  phases,               \* view -> the items of its RenderPhase<Transparent2d>
  pass,                 \* TrackedRenderPass: the commands issued this frame
  drawn,                \* view -> number of phase items handed to DrawSprite
  queued_keys,          \* history: sort keys of all items ever added to a phase
  prev_extracted,       \* history: entities that had a record in the last frame
  prev_batch,           \* history: <<entity, vertex_index>> of the last frame's records
  stage,                \* the system that runs next
  frame,                \* number of the current frame
  panicked              \* TRUE once a system has panicked

vars == <<scene, images, texture_atlases, views, view_uniform_offsets,
          view_uniforms, pipeline_ready, extracted_sprites, sprite_meta,
          image_bind_groups, bind_groups, phases, pass, drawn, queued_keys,
          prev_extracted, prev_batch, stage, frame, panicked>>

main_world == <<scene, images, texture_atlases>>
view_world == <<views, view_uniform_offsets, view_uniforms>>
history == <<queued_keys, prev_extracted, prev_batch>>

\* BufferVec::new
BufferVecNew == [values |-> <<>>, capacity |-> 0, buffer |-> FALSE]

\* SpriteMeta::default
SpriteMetaDefault ==
  [vertices |-> BufferVecNew, indices |-> BufferVecNew, view_bind_group |-> None]

\* the unit quad of SpriteMeta::default (Quad of size 1 x 1), positions in
\* doubled units: bottom-left, top-left, top-right, bottom-right
quad_vertex_positions == <<<<-1, -1, 0>>, <<-1, 1, 0>>, <<1, 1, 0>>, <<1, -1, 0>>>>
\* the unit quad's two triangles
quad_indices == <<0, 2, 1, 0, 3, 2>>

\* the offset stored in a view's ViewUniformOffset
ViewUniformOffset(v) == v - 1

\* the views a frame can have: the first k cameras are active
ViewSets == {1..k : k \in 0..MaxViews}

Init ==
  /\ scene \in [Entities -> {None} \cup {Some(c) : c \in Components}]
  /\ images \in SUBSET ImageHandles
  /\ "imgB" \in images
  /\ texture_atlases \in SUBSET AtlasHandles
  /\ views \in ViewSets
  /\ view_uniform_offsets \in {{}, views}
  /\ view_uniforms = (view_uniform_offsets # {})
  /\ pipeline_ready \in BOOLEAN
  /\ extracted_sprites = <<>>
  /\ sprite_meta = SpriteMetaDefault
  /\ image_bind_groups = <<>>
  /\ bind_groups = <<>>
  /\ phases = [v \in Views |-> <<>>]
  /\ pass = <<>>
  /\ drawn = [v \in Views |-> 0]
  /\ queued_keys = {}
  /\ prev_extracted = {}
  /\ prev_batch = {}
  /\ stage = "extract_atlases"
  /\ frame = 1
  /\ panicked = FALSE

\* ------------------------------------------------------------- extraction
\* the entities in the order a query iterates them
EntitySeq == [k \in 1..MaxEntities |-> k]

\* the entities of the scene that carry a component of the given kind
Query(kind) ==
  SeqFilter(EntitySeq, {e \in Entities : scene[e] # None /\ unwrap(scene[e]).kind = kind})

RECURSIVE insert_or_spawn_batch(_, _)
\* Commands::insert_or_spawn_batch: each (entity, ExtractedSprite) of the
\* batch replaces the record of an entity that has one, and is added to the
\* world otherwise
insert_or_spawn_batch(world, batch) ==
  IF batch = <<>> THEN world
  ELSE LET s == Head(batch)
           at == {k \in DOMAIN world : world[k].entity = s.entity}
           w == IF at = {} THEN Append(world, s)
                ELSE [k \in DOMAIN world |-> IF k \in at THEN s ELSE world[k]]
       IN insert_or_spawn_batch(w, Tail(batch))

\* the record extract_atlases pushes for an atlas sprite whose atlas is loaded
AtlasExtracted(e) ==
  LET atlas_sprite == unwrap(scene[e])
      texture_atlas == TextureAtlas(atlas_sprite.handle)
  IN [entity |-> e,
      atlas_size |-> Some(texture_atlas.size),
      transform |-> GlobalTransform(e),
      rect |-> texture_atlas.textures[atlas_sprite.index + 1],
      handle |-> texture_atlas.texture,
      vertex_index |-> 0]

\* AtlasLoaded without the test of the asset
AtlasLoaded_Always(e) == TRUE

\* texture_atlases.get(handle) is Some
AtlasLoaded(e) == unwrap(scene[e]).handle \in texture_atlases

\* textures[index] is inside the table
AtlasIndexInBounds(e) ==
  unwrap(scene[e]).index + 1 \in DOMAIN TextureAtlas(unwrap(scene[e]).handle).textures

\* extract_atlases that skips an entity whose index is outside the table
extract_atlases_Skip ==
  /\ stage = "extract_atlases"
  /\ ~panicked
  /\ LET q == Query("atlas")
         loaded == SeqFilter(q, {e \in Entities : /\ scene[e] # None
                                                  /\ AtlasLoaded(e)
                                                  /\ AtlasIndexInBounds(e)})
     IN extracted_sprites' =
          insert_or_spawn_batch(extracted_sprites,
                                [k \in DOMAIN loaded |-> AtlasExtracted(loaded[k])])
  /\ stage' = "extract_sprites"
  /\ UNCHANGED <<main_world, view_world, pipeline_ready, sprite_meta, image_bind_groups,
                 bind_groups, phases, pass, drawn, history, frame, panicked>>

extract_atlases ==
  /\ stage = "extract_atlases"
  /\ ~panicked
  /\ LET q == Query("atlas")
         loaded == SeqFilter(q, {e \in Entities : scene[e] # None /\ AtlasLoaded(e)})
     IN IF \E k \in DOMAIN loaded : ~AtlasIndexInBounds(loaded[k])
        THEN \* the slice index panics before the commands are issued
             /\ panicked' = TRUE
             /\ UNCHANGED <<extracted_sprites, stage>>
        ELSE /\ extracted_sprites' =
                  insert_or_spawn_batch(extracted_sprites,
                                        [k \in DOMAIN loaded |-> AtlasExtracted(loaded[k])])
             /\ stage' = "extract_sprites"
             /\ UNCHANGED panicked
  /\ UNCHANGED <<main_world, view_world, pipeline_ready, sprite_meta, image_bind_groups,
                 bind_groups, phases, pass, drawn, history, frame>>

\* the record extract_sprites pushes for a sprite whose image is loaded
SpriteExtracted(e) ==
  LET sprite == unwrap(scene[e])
      size == ImageSize(sprite.handle)
  IN [entity |-> e,
      atlas_size |-> None,
      transform |-> GlobalTransform(e),
      rect |-> Rect(Vec2(0, 0), unwrap_or(sprite.custom_size, Vec2(size[1], size[2]))),
      handle |-> sprite.handle,
      vertex_index |-> 0]

\* ImageLoaded without the test of the asset
ImageLoaded_Always(e) == TRUE

\* images.get(handle) is Some
ImageLoaded(e) == unwrap(scene[e]).handle \in images

extract_sprites ==
  /\ stage = "extract_sprites"
  /\ ~panicked
  /\ LET q == Query("sprite")
         loaded == SeqFilter(q, {e \in Entities : scene[e] # None /\ ImageLoaded(e)})
     IN extracted_sprites' =
          insert_or_spawn_batch(extracted_sprites,
                                [k \in DOMAIN loaded |-> SpriteExtracted(loaded[k])])
  /\ stage' = "prepare"
  /\ UNCHANGED <<main_world, view_world, pipeline_ready, sprite_meta, image_bind_groups,
                 bind_groups, phases, pass, drawn, history, frame, panicked>>

\* ------------------------------------------------------------ preparation
\* BufferVec::reserve_and_clear: the values are discarded, the capacity only
\* grows, and a GPU buffer exists once a capacity was reserved
reserve_and_clear(buf, capacity) ==
  [values |-> <<>>,
   capacity |-> IF capacity > buf.capacity THEN capacity ELSE buf.capacity,
   buffer |-> buf.buffer \/ capacity > buf.capacity]

\* BufferVec::push
push(buf, value) == [buf EXCEPT !.values = Append(@, value)]

RECURSIVE push_all(_, _)
\* the pushes of one inner loop, in order
push_all(buf, items) ==
  IF items = <<>> THEN buf ELSE push_all(push(buf, Head(items)), Tail(items))

\* atlas_positions without the flip of the y axis: the quad's bottom corners
\* get the rect's min.y
atlas_positions_Unflipped(sprite_rect) ==
  <<sprite_rect.min,
    Vec2(sprite_rect.min[1], sprite_rect.max[2]),
    sprite_rect.max,
    Vec2(sprite_rect.max[1], sprite_rect.min[2])>>

\* [bottom_left, top_left, top_right, bottom_right] of the sprite's rect
atlas_positions(sprite_rect) ==
  <<Vec2(sprite_rect.min[1], sprite_rect.max[2]),
    sprite_rect.min,
    Vec2(sprite_rect.max[1], sprite_rect.min[2]),
    sprite_rect.max>>

\* UVDivisor that normalises every sprite by the extent of its own rect
UVDivisor_RectSize(sprite) == RectSize(sprite.rect)

\* the divisor of the UVs: atlas_size, or rect.max when there is none
UVDivisor(sprite) == unwrap_or(sprite.atlas_size, sprite.rect.max)

\* the vertex prepare_sprites pushes for corner `index` (1-based) of a sprite:
\* the quad corner scaled by the rect's size and moved by the transform
\* (doubled units), and the rect corner divided by atlas_size or by rect.max
SpriteVertex(sprite, index) ==
  LET vertex_position == quad_vertex_positions[index]
      size == RectSize(sprite.rect)
      divisor == UVDivisor(sprite)
      anchor == atlas_positions(sprite.rect)[index]
  IN [position |-> <<vertex_position[1] * size[1] + 2 * sprite.transform[1],
                     vertex_position[2] * size[2] + 2 * sprite.transform[2],
                     vertex_position[3]>>,
      uv |-> <<<<anchor[1], divisor[1]>>, <<anchor[2], divisor[2]>>>>]

\* the four vertices of one sprite, in the quad's corner order
SpriteVertices(sprite) ==
  [index \in DOMAIN quad_vertex_positions |-> SpriteVertex(sprite, index)]

\* SpriteIndices with the index stride in place of the vertex stride
SpriteIndices_IndexStride(i) ==
  [k \in DOMAIN quad_indices |-> i * Len(quad_indices) + quad_indices[k]]

\* the six indices of the sprite at list position i (0-based)
SpriteIndices(i) ==
  [k \in DOMAIN quad_indices |-> i * Len(quad_vertex_positions) + quad_indices[k]]

\* VertexIndex that leaves the slot of the extraction (0)
VertexIndex_Unassigned(i) == 0

\* VertexIndex that counts the slots from one
VertexIndex_OneBased(i) == i + 1

\* the slot prepare_sprites stores in the sprite at list position i (0-based)
VertexIndex(i) == i

RECURSIVE prepare_loop(_, _, _)
\* the loop over extracted_sprites.iter_mut().enumerate(), from position i
\* (0-based) on; meta is SpriteMeta, sprites the records
prepare_loop(meta, sprites, i) ==
  IF i >= Len(sprites) THEN [meta |-> meta, sprites |-> sprites]
  ELSE LET sprite == sprites[i + 1]
           m == [meta EXCEPT !.vertices = push_all(@, SpriteVertices(sprite)),
                             !.indices = push_all(@, SpriteIndices(i))]
           s == [sprites EXCEPT ![i + 1].vertex_index = VertexIndex(i)]
       IN prepare_loop(m, s, i + 1)

\* reserve_buffers that grows the buffers and keeps their values
reserve_buffers_NoClear(meta, extracted_sprite_len) ==
  [meta EXCEPT
     !.vertices = [reserve_and_clear(@, extracted_sprite_len * Len(quad_vertex_positions))
                     EXCEPT !.values = meta.vertices.values],
     !.indices = [reserve_and_clear(@, extracted_sprite_len * Len(quad_indices))
                    EXCEPT !.values = meta.indices.values]]

\* reserve_buffers without the call for the index buffer
reserve_buffers_VerticesOnly(meta, extracted_sprite_len) ==
  [meta EXCEPT
     !.vertices = reserve_and_clear(@, extracted_sprite_len * Len(quad_vertex_positions))]

\* the two reserve_and_clear calls of prepare_sprites
reserve_buffers(meta, extracted_sprite_len) ==
  [meta EXCEPT
     !.vertices = reserve_and_clear(@, extracted_sprite_len * Len(quad_vertex_positions)),
     !.indices = reserve_and_clear(@, extracted_sprite_len * Len(quad_indices))]

\* NoSprites without the early return
NoSprites_Never(extracted_sprite_len) == FALSE

\* the early return of prepare_sprites
NoSprites(extracted_sprite_len) == extracted_sprite_len = 0

prepare_sprites ==
  /\ stage = "prepare"
  /\ ~panicked
  /\ LET extracted_sprite_len == Len(extracted_sprites)
     IN IF NoSprites(extracted_sprite_len)
        THEN UNCHANGED <<sprite_meta, extracted_sprites>>
        ELSE LET reserved == reserve_buffers(sprite_meta, extracted_sprite_len)
                 done == prepare_loop(reserved, extracted_sprites, 0)
             IN /\ sprite_meta' = done.meta
                /\ extracted_sprites' = done.sprites
  /\ stage' = "queue"
  /\ UNCHANGED <<main_world, view_world, pipeline_ready, image_bind_groups,
                 bind_groups, phases, pass, drawn, history, frame, panicked>>

\* ----------------------------------------------------------------- queuing
\* RenderAssets<Image>: the images with a GPU texture view and sampler
gpu_images == images

\* the set of views as the list views.iter_mut() walks
ViewSeq == SeqFilter([k \in 1..MaxViews |-> k], views)

\* or_insert as a plain insert: an entry that exists is replaced
or_insert_Replace(cache, handle, id) ==
  [h \in DOMAIN cache \cup {handle} |-> IF h = handle THEN id ELSE cache[h]]

\* image_bind_groups.values.entry(handle).or_insert_with(create): an entry
\* that exists is kept, a missing one gets the bind group `id`
or_insert(cache, handle, id) ==
  IF handle \in DOMAIN cache THEN cache
  ELSE [h \in DOMAIN cache \cup {handle} |-> IF h = handle THEN id ELSE cache[h]]

\* the Transparent2d item queue_sprites adds for a sprite
Transparent2d(sprite) ==
  [draw_function |-> "DrawSprite",
   pipeline |-> "sprite_pipeline",
   entity |-> sprite.entity,
   sort_key |-> sprite.handle]

\* CacheMiss that creates a bind group at every lookup
CacheMiss_Always(cache, handle) == TRUE

\* the entry of the handle is vacant: or_insert_with runs its closure
CacheMiss(cache, handle) == handle \notin DOMAIN cache

RECURSIVE queue_loop(_, _, _)
\* the two nested loops of queue_sprites: view number v (1-based position in
\* ViewSeq), sprite number i (1-based), st the state they change
queue_loop(st, v, i) ==
  IF v > Len(ViewSeq) THEN st
  ELSE IF i > Len(extracted_sprites) THEN queue_loop(st, v + 1, 1)
  ELSE LET sprite == extracted_sprites[i]
           miss == CacheMiss(st.cache, sprite.handle)
       IN IF miss /\ sprite.handle \notin gpu_images
          THEN \* gpu_images.get(&sprite.handle).unwrap() panics
               [st EXCEPT !.panicked = TRUE]
          ELSE LET created ==
                     IF miss
                     THEN Append(st.created, [label |-> "sprite_material_bind_group",
                                              layout |-> "material_layout",
                                              resource |-> sprite.handle])
                     ELSE st.created
                   next == [st EXCEPT
                              !.created = created,
                              !.cache = or_insert(@, sprite.handle, Len(created)),
                              !.phases[ViewSeq[v]] = Append(@, Transparent2d(sprite)),
                              !.keys = @ \cup {sprite.handle}]
               IN queue_loop(next, v, i + 1)

\* ViewBinding without the test of the binding
ViewBinding_Always == TRUE

\* view_uniforms.uniforms.binding() is Some
ViewBinding == view_uniforms

\* store_view_bind_group that builds a fresh SpriteMeta around the bind group
store_view_bind_group_Reset(meta, id) ==
  [SpriteMetaDefault EXCEPT !.view_bind_group = Some(id)]

\* sprite_meta.view_bind_group = Some(..)
store_view_bind_group(meta, id) == [meta EXCEPT !.view_bind_group = Some(id)]

queue_sprites ==
  /\ stage = "queue"
  /\ ~panicked
  /\ IF ViewBinding
     THEN LET created == Append(bind_groups, [label |-> "sprite_view_bind_group",
                                              layout |-> "view_layout",
                                              resource |-> "view_binding"])
              done == queue_loop([cache |-> image_bind_groups, created |-> created,
                                  phases |-> phases, keys |-> queued_keys,
                                  panicked |-> FALSE], 1, 1)
          IN /\ sprite_meta' = store_view_bind_group(sprite_meta, Len(created))
             /\ image_bind_groups' = done.cache
             /\ bind_groups' = done.created
             /\ phases' = done.phases
             /\ queued_keys' = done.keys
             /\ panicked' = done.panicked
             /\ stage' = IF done.panicked THEN stage ELSE "draw"
     ELSE /\ stage' = "draw"
          /\ UNCHANGED <<sprite_meta, image_bind_groups, bind_groups, phases,
                         queued_keys, panicked>>
  /\ UNCHANGED <<main_world, view_world, pipeline_ready, extracted_sprites, pass,
                 drawn, prev_extracted, prev_batch, frame>>

\* ----------------------------------------------------------------- drawing
INDICES == 6

\* one command of the render pass, issued while drawing `item` for `view`
Command(cmd, view, item, args) ==
  [cmd |-> cmd, view |-> view, entity |-> item.entity, args |-> args]

\* sprites.get(item.entity): the positions of the entity's ExtractedSprite
SpriteOf(entity) == {k \in DOMAIN extracted_sprites : extracted_sprites[k].entity = entity}

\* PipelineCompiled without the test of the pipeline
PipelineCompiled_Always(item) == TRUE

\* pipelines.get(item.pipeline) is Some
PipelineCompiled(item) == pipeline_ready

\* DrawRange that starts at the sprite's first vertex slot
DrawRange_VertexStride(vertex_index) == <<vertex_index * 4, vertex_index * 4 + INDICES>>

\* the index range of the sprite's draw_indexed
DrawRange(vertex_index) == <<vertex_index * INDICES, vertex_index * INDICES + INDICES>>

\* RecordMissing that is only looked at inside the test of the pipeline
RecordMissing_AfterPipeline(view, item) ==
  /\ PipelineCompiled(item)
  /\ (view \notin view_uniform_offsets \/ SpriteOf(item.entity) = {})

\* views.get(view).unwrap() or sprites.get(item.entity).unwrap() panics
RecordMissing(view, item) ==
  view \notin view_uniform_offsets \/ SpriteOf(item.entity) = {}

\* DrawSprite::draw for one item of one view: the commands it appends to the
\* pass, and whether one of its unwraps panics
DrawSprite(view, item) ==
  IF RecordMissing(view, item)
  THEN [pass |-> pass, panicked |-> TRUE]
  ELSE IF ~PipelineCompiled(item)
  THEN [pass |-> pass, panicked |-> FALSE]
  ELSE
    LET extracted_sprite == extracted_sprites[CHOOSE k \in SpriteOf(item.entity) : TRUE]
        p1 == Append(pass, Command("set_render_pipeline", view, item, <<item.pipeline>>))
        p2 == Append(p1, Command("set_vertex_buffer", view, item, <<0>>))
        p3 == Append(p2, Command("set_index_buffer", view, item, <<0>>))
        p4 == Append(p3, Command("set_bind_group", view, item,
                                 <<0, unwrap(sprite_meta.view_bind_group),
                                   ViewUniformOffset(view)>>))
        p5 == Append(p4, Command("set_bind_group", view, item,
                                 <<1, image_bind_groups[extracted_sprite.handle]>>))
        p6 == Append(p5, Command("draw_indexed", view, item,
                                 DrawRange(extracted_sprite.vertex_index) \o <<0, 0, 1>>))
    IN IF ~sprite_meta.vertices.buffer THEN [pass |-> p1, panicked |-> TRUE]
       ELSE IF ~sprite_meta.indices.buffer THEN [pass |-> p2, panicked |-> TRUE]
       ELSE IF sprite_meta.view_bind_group = None THEN [pass |-> p3, panicked |-> TRUE]
       ELSE IF extracted_sprite.handle \notin DOMAIN image_bind_groups
            THEN [pass |-> p4, panicked |-> TRUE]
       ELSE [pass |-> p6, panicked |-> FALSE]

\* the render graph runs the pass of a view that has its uniforms and hands
\* the next item of the view's phase to the item's draw function
draw(view) ==
  /\ stage = "draw"
  /\ ~panicked
  /\ view \in views \cap view_uniform_offsets
  /\ \A w \in views \cap view_uniform_offsets : w < view => drawn[w] = Len(phases[w])
  /\ drawn[view] < Len(phases[view])
  /\ LET done == DrawSprite(view, phases[view][drawn[view] + 1])
     IN /\ pass' = done.pass
        /\ panicked' = done.panicked
  /\ drawn' = [drawn EXCEPT ![view] = @ + 1]
  /\ UNCHANGED <<main_world, view_world, pipeline_ready, extracted_sprites, sprite_meta,
                 image_bind_groups, bind_groups, phases, history, stage, frame>>

\* all phases of the frame are drawn
render_done ==
  /\ stage = "draw"
  /\ ~panicked
  /\ \A w \in views \cap view_uniform_offsets : drawn[w] = Len(phases[w])
  /\ stage' = "cleanup"
  /\ UNCHANGED <<main_world, view_world, pipeline_ready, extracted_sprites, sprite_meta,
                 image_bind_groups, bind_groups, phases, pass, drawn, history, frame,
                 panicked>>

\* ------------------------------------------------------------ between frames
\* the render world's entities are dropped at the end of the frame: the
\* ExtractedSprite records and the views' phases go with them
clear_entities ==
  /\ stage = "cleanup"
  /\ ~panicked
  /\ prev_extracted' = {extracted_sprites[k].entity : k \in DOMAIN extracted_sprites}
  /\ prev_batch' = {<<extracted_sprites[k].entity, extracted_sprites[k].vertex_index>> :
                      k \in DOMAIN extracted_sprites}
  /\ extracted_sprites' = <<>>
  /\ phases' = [v \in Views |-> <<>>]
  /\ drawn' = [v \in Views |-> 0]
  /\ pass' = <<>>
  /\ stage' = "update"
  /\ UNCHANGED <<main_world, view_world, pipeline_ready, sprite_meta, image_bind_groups,
                 bind_groups, queued_keys, frame, panicked>>

\* the next frame starts
NextFrame ==
  /\ stage = "update"
  /\ frame < MaxFrames
  /\ frame' = frame + 1
  /\ stage' = "extract_atlases"
  /\ UNCHANGED <<extracted_sprites, sprite_meta, image_bind_groups, bind_groups, phases,
                 pass, drawn, history, panicked>>

\* the main world spawns, despawns or replaces one sprite entity
UpdateScene ==
  /\ NextFrame
  /\ \E e \in Entities, c \in {None} \cup {Some(x) : x \in Components} :
       /\ scene[e] # c
       /\ scene' = [scene EXCEPT ![e] = c]
  /\ UNCHANGED <<images, texture_atlases, view_world, pipeline_ready>>

\* the asset server finishes loading an image or an atlas, or drops one
UpdateAssets ==
  /\ NextFrame
  /\ \/ /\ images' \in {images \cup {"imgA"}, images \ {"imgA"}} \ {images}
        /\ UNCHANGED texture_atlases
     \/ /\ \E a \in AtlasHandles :
             texture_atlases' \in {texture_atlases \cup {a}, texture_atlases \ {a}}
                                   \ {texture_atlases}
        /\ UNCHANGED images
  /\ UNCHANGED <<scene, view_world, pipeline_ready>>

\* the cameras of the frame change; the view uniforms get their buffer the
\* first time a view's uniform is written and keep it
UpdateViews ==
  /\ NextFrame
  /\ views' \in ViewSets
  /\ view_uniform_offsets' \in {{}, views'}
  /\ <<views', view_uniform_offsets'>> # <<views, view_uniform_offsets>>
  /\ view_uniforms' = (view_uniforms \/ view_uniform_offsets' # {})
  /\ UNCHANGED <<main_world, pipeline_ready>>

\* the pipeline cache finishes compiling the sprite pipeline
CompilePipeline ==
  /\ NextFrame
  /\ ~pipeline_ready
  /\ pipeline_ready' = TRUE
  /\ UNCHANGED <<main_world, view_world>>

\* a frame on an unchanged scene
UpdateNothing ==
  /\ NextFrame
  /\ UNCHANGED <<main_world, view_world, pipeline_ready>>

Next ==
  \/ extract_atlases
  \/ extract_sprites
  \/ prepare_sprites
  \/ queue_sprites
  \/ \E view \in Views : draw(view)
  \/ render_done
  \/ clear_entities
  \/ UpdateScene
  \/ UpdateAssets
  \/ UpdateViews
  \/ CompilePipeline
  \/ UpdateNothing

Spec == Init /\ [][Next]_vars

\* ---------------------------------------------------- an unchanged scene:
\* the frames of a run whose entities, assets and transforms stay as they
\* are; the views and the pipeline may change
NextIdem ==
  \/ extract_atlases
  \/ extract_sprites
  \/ prepare_sprites
  \/ queue_sprites
  \/ \E view \in Views : draw(view)
  \/ render_done
  \/ clear_entities
  \/ UpdateViews
  \/ CompilePipeline
  \/ UpdateNothing

SpecIdem == Init /\ [][NextIdem]_vars

\* ------------------------------------------------- extraction and preparation
\* of one frame over a wider range of sprites: custom sizes with components
\* 0..MaxCustomSize, both images with and without a custom size, both valid
\* atlas indices; every asset is loaded
MaxCustomSize == 2

WideComponents ==
  {[kind |-> "sprite", handle |-> h, custom_size |-> c, index |-> 0] :
     h \in ImageHandles,
     c \in {None} \cup {Some(Vec2(w, ht)) : w \in 0..MaxCustomSize, ht \in 0..MaxCustomSize}}
  \cup {[kind |-> "atlas", handle |-> "atlas", custom_size |-> None, index |-> i] : i \in {0, 1}}

InitVertex ==
  /\ scene \in [Entities -> {None} \cup {Some(c) : c \in WideComponents}]
  /\ images = ImageHandles
  /\ texture_atlases = AtlasHandles
  /\ views = {}
  /\ view_uniform_offsets = {}
  /\ view_uniforms = FALSE
  /\ pipeline_ready = FALSE
  /\ extracted_sprites = <<>>
  /\ sprite_meta = SpriteMetaDefault
  /\ image_bind_groups = <<>>
  /\ bind_groups = <<>>
  /\ phases = [v \in Views |-> <<>>]
  /\ pass = <<>>
  /\ drawn = [v \in Views |-> 0]
  /\ queued_keys = {}
  /\ prev_extracted = {}
  /\ prev_batch = {}
  /\ stage = "extract_atlases"
  /\ frame = 1
  /\ panicked = FALSE

NextVertex ==
  \/ extract_atlases
  \/ extract_sprites
  \/ prepare_sprites

SpecVertex == InitVertex /\ [][NextVertex]_vars

\* ----------------------------------------------------- DrawSprite::draw alone:
\* the first frame up to its draw stage, and then one call of the draw
\* function with any view and any item a caller can hand it
DrawItems ==
  {[draw_function |-> "DrawSprite", pipeline |-> "sprite_pipeline",
    entity |-> e, sort_key |-> h] : e \in Entities, h \in ImageHandles}

draw_item(view, item) ==
  /\ stage = "draw"
  /\ ~panicked
  /\ LET done == DrawSprite(view, item)
     IN /\ pass' = done.pass
        /\ panicked' = done.panicked
  /\ stage' = "cleanup"
  /\ UNCHANGED <<main_world, view_world, pipeline_ready, extracted_sprites, sprite_meta,
                 image_bind_groups, bind_groups, phases, drawn, history, frame>>

NextDraw ==
  \/ extract_atlases
  \/ extract_sprites
  \/ prepare_sprites
  \/ queue_sprites
  \/ \E view \in Views, item \in DrawItems : draw_item(view, item)

SpecDraw == Init /\ [][NextDraw]_vars

\* ================================================================== claims
\* the frame's ExtractedSprite records are complete and not yet dropped
Extracted == stage \in {"prepare", "queue", "draw", "cleanup"}
\* prepare_sprites has run in this frame and its records are not yet dropped
Prepared == stage \in {"queue", "draw", "cleanup"}
N == Len(extracted_sprites)
VertexValues == sprite_meta.vertices.values
IndexValues == sprite_meta.indices.values
HasRecord(e) == \E k \in DOMAIN extracted_sprites : extracted_sprites[k].entity = e
Present(e) == scene[e] # None
IsSprite(e) == Present(e) /\ unwrap(scene[e]).kind = "sprite"
IsAtlas(e) == Present(e) /\ unwrap(scene[e]).kind = "atlas"
DrawCommands == {k \in DOMAIN pass : pass[k].cmd = "draw_indexed"}
MaterialCreations == {k \in DOMAIN bind_groups : bind_groups[k].layout = "material_layout"}

\* C1: after prepare_sprites ran on a frame with N >= 1 extracted sprites the
\* vertex buffer holds exactly 4N records, the index buffer exactly 6N
\* indices, and every index value lies in [0, 4N).
C1_BufferSizes ==
  (Prepared /\ N >= 1) =>
     /\ Len(VertexValues) = 4 * N
     /\ Len(IndexValues) = 6 * N
     /\ \A k \in DOMAIN IndexValues : IndexValues[k] >= 0 /\ IndexValues[k] < 4 * N

C1_Witness == Prepared /\ N >= 2 /\ Len(IndexValues) = 6 * N

\* C2: for every sprite i of the frame the 6 indices at index-buffer
\* positions 6i..6i+6 all point into vertex slots 4i..4i+4, no index of
\* another sprite points into those slots, and every draw_indexed issued for
\* the sprite covers exactly batch_index*6 .. batch_index*6+6, which is the
\* sprite's own span, with base vertex 0 and instances 0..1.
C2_ExclusiveSlots ==
  (Prepared /\ N >= 1) =>
     /\ \A i \in 0..(N - 1) : \A k \in DOMAIN IndexValues :
          (k - 1 \in (6 * i)..(6 * i + 5)) <=> (IndexValues[k] \in (4 * i)..(4 * i + 3))
     /\ \A c \in DrawCommands : \A i \in 0..(N - 1) :
          extracted_sprites[i + 1].entity = pass[c].entity =>
            /\ pass[c].args = <<extracted_sprites[i + 1].vertex_index * 6,
                               extracted_sprites[i + 1].vertex_index * 6 + 6, 0, 0, 1>>
            /\ pass[c].args[1] = 6 * i

C2_Witness ==
  /\ Prepared /\ N >= 2
  /\ \E c \in DrawCommands : pass[c].entity = extracted_sprites[2].entity
  /\ \E c \in DrawCommands : pass[c].entity = extracted_sprites[1].entity

\* C3: prepare_sprites gives the sprite at extraction-list position i the
\* batch index i, so the batch indices of a frame are pairwise distinct and
\* cover 0..N-1.
C3_BatchIndexIsPosition ==
  (Prepared /\ N >= 1) =>
     /\ \A i \in 0..(N - 1) : extracted_sprites[i + 1].vertex_index = i
     /\ {extracted_sprites[k].vertex_index : k \in DOMAIN extracted_sprites} = 0..(N - 1)

C3_Witness == Prepared /\ N >= 2 /\ extracted_sprites[2].vertex_index = 1

\* C4: the material bind-group cache only grows: no step removes an entry,
\* and a texture identity that is mapped to a bind group maps to the same
\* bind group after every step.
C4_CacheMonotone ==
  [][\A h \in DOMAIN image_bind_groups :
        /\ h \in DOMAIN image_bind_groups'
        /\ image_bind_groups'[h] = image_bind_groups[h]]_vars

\* a sprite was queued in the second frame whose bind group is older than
\* the frame's view bind group: the lookup found the entry of the first frame
C4_Witness ==
  /\ stage = "draw" /\ frame >= 2 /\ ~panicked
  /\ sprite_meta.view_bind_group # None
  /\ \E v \in Views : \E k \in DOMAIN phases[v] :
       /\ phases[v][k].sort_key \in DOMAIN image_bind_groups
       /\ image_bind_groups[phases[v][k].sort_key] < unwrap(sprite_meta.view_bind_group)

\* C5: sprites sharing a texture identity produce one cache entry and one
\* material bind-group creation: over all sprites, views and frames there is
\* one creation per texture identity, the created bind groups are the cache's
\* entries, and the identities are those of the items ever queued.
C5_OneCreationPerTexture ==
  /\ \A j, k \in MaterialCreations :
       bind_groups[j].resource = bind_groups[k].resource => j = k
  /\ Cardinality(MaterialCreations) = Cardinality(DOMAIN image_bind_groups)
  /\ {bind_groups[k].resource : k \in MaterialCreations} = DOMAIN image_bind_groups
  /\ \A h \in DOMAIN image_bind_groups :
       image_bind_groups[h] \in MaterialCreations
       /\ bind_groups[image_bind_groups[h]].resource = h
  /\ Cardinality(MaterialCreations) = Cardinality(queued_keys)
  /\ queued_keys = DOMAIN image_bind_groups

\* two sprites with the same texture identity were queued for two views
C5_Witness ==
  /\ stage = "draw" /\ ~panicked
  /\ \E v, w \in Views : v # w /\ Len(phases[v]) >= 2 /\ Len(phases[w]) >= 2
       /\ phases[v][1].sort_key = phases[v][2].sort_key
       /\ phases[v][1].entity # phases[v][2].entity
  /\ Cardinality(MaterialCreations) = 1

\* C6: on a frame with zero extracted sprites prepare_sprites leaves the
\* vertex and index buffers (values, capacity, GPU buffer) as they were, and
\* queue_sprites adds no item to any view's phase.
C6_ZeroSpriteFrame ==
  [][/\ (stage = "prepare" /\ N = 0) =>
          /\ sprite_meta'.vertices = sprite_meta.vertices
          /\ sprite_meta'.indices = sprite_meta.indices
     /\ (stage = "queue" /\ N = 0) => phases' = phases]_vars

\* a frame without sprites was prepared and queued while the buffers still
\* hold an earlier frame's sprites, and the views could have been queued for
C6_Witness ==
  /\ stage = "draw" /\ N = 0
  /\ VertexValues # <<>> /\ IndexValues # <<>>
  /\ views # {} /\ view_uniforms

\* C7: handing DrawSprite an item whose pipeline is not compiled issues no
\* GPU command and raises no panic.
C7_PipelineNotReady ==
  [][(stage = "draw" /\ ~pipeline_ready) => (pass' = pass /\ ~panicked')]_vars

C7_Witness ==
  /\ stage = "draw" /\ ~pipeline_ready /\ ~panicked
  /\ \E v \in Views : drawn[v] >= 1
  /\ pass = <<>>

\* the ExtractedSprite an entity of the current scene is extracted to
ExtractedOf(e) == IF IsSprite(e) THEN SpriteExtracted(e) ELSE AtlasExtracted(e)
\* the entity's asset (image or atlas) is loaded
AssetLoaded(e) ==
  \/ IsSprite(e) /\ unwrap(scene[e]).handle \in images
  \/ IsAtlas(e) /\ unwrap(scene[e]).handle \in texture_atlases

\* C8: after the extraction of a frame the ExtractedSprite records are
\* exactly those produced from this frame's scene: one record per resolved
\* entity of the scene, with this frame's data, and none for an entity that
\* is absent or unresolved (whatever was extracted in the frame before).
C8_ExtractionReplaces ==
  Extracted =>
     /\ \A e \in Entities : HasRecord(e) <=> (Present(e) /\ AssetLoaded(e))
     /\ \A j, k \in DOMAIN extracted_sprites :
          extracted_sprites[j].entity = extracted_sprites[k].entity => j = k
     /\ \A k \in DOMAIN extracted_sprites :
          [extracted_sprites[k] EXCEPT !.vertex_index = 0]
            = ExtractedOf(extracted_sprites[k].entity)

\* an entity extracted in the frame before has no record in this frame
C8_Witness ==
  /\ stage = "prepare" /\ frame >= 2
  /\ \E e \in prev_extracted : ~HasRecord(e)
  /\ \E e \in prev_extracted : HasRecord(e)

\* the extraction of the frame has ended: it is complete, or it panicked
ExtractionOver == Extracted \/ (stage \in {"extract_atlases", "extract_sprites"} /\ panicked)

\* C9 as stated: once the extraction of a frame is over, every sprite entity
\* has a record iff its image is loaded and every atlas entity iff its atlas
\* is loaded, and no panic was raised.
C9_Original ==
  ExtractionOver =>
     /\ \A e \in Entities : Present(e) => (HasRecord(e) <=> AssetLoaded(e))
     /\ (stage \in {"extract_atlases", "extract_sprites"} => ~panicked)

\* C9 amended: once the extraction of a frame is complete, a sprite entity
\* has a record iff its image is loaded, an atlas entity iff its atlas is
\* loaded and its index is inside the atlas' table; the extraction panics
\* only for a loaded atlas with an index outside the table, never for an
\* asset that is not loaded.
C9_SkipUnloaded ==
  /\ Extracted =>
       \A e \in Entities : Present(e) =>
          (HasRecord(e) <=> \/ IsSprite(e) /\ AssetLoaded(e)
                            \/ IsAtlas(e) /\ AssetLoaded(e) /\ AtlasIndexInBounds(e))
  /\ (stage \in {"extract_atlases", "extract_sprites"} /\ panicked) =>
       \E e \in Entities : IsAtlas(e) /\ AssetLoaded(e) /\ ~AtlasIndexInBounds(e)

\* entities that were skipped in the first frame are extracted in the
\* second: no entity had a record, one thing changed between the frames, and
\* two entities have a record now, so an asset of theirs was loaded
C9_Witness ==
  /\ stage = "prepare" /\ frame = 2 /\ prev_extracted = {}
  /\ N >= 2

\* C10: without a view-uniform binding queue_sprites adds no item to any
\* view's phase and leaves the material bind-group cache and the stored view
\* bind group unchanged.
C10_NoViewBinding ==
  [][(stage = "queue" /\ ~view_uniforms) =>
        /\ phases' = phases
        /\ image_bind_groups' = image_bind_groups
        /\ bind_groups' = bind_groups
        /\ sprite_meta'.view_bind_group = sprite_meta.view_bind_group]_vars

C10_Witness ==
  /\ stage = "draw" /\ ~view_uniforms /\ ~panicked
  /\ N >= 1 /\ views # {}
  /\ \A v \in Views : phases[v] = <<>>

\* queue_sprites has ended in this frame: it returned, or it panicked
QueueOver == stage \in {"draw", "cleanup"} \/ (stage = "queue" /\ panicked)

\* the item the claim expects for the sprite at list position k (1-based)
ExpectedItem(k) ==
  [draw_function |-> "DrawSprite",
   pipeline |-> "sprite_pipeline",
   entity |-> extracted_sprites[k].entity,
   sort_key |-> extracted_sprites[k].handle]

\* C11: when a view-uniform binding is available, queue_sprites leaves in
\* the phase of each view exactly one item per extracted sprite, carrying the
\* sprite's entity, the pipeline id, the DrawSprite function id and the
\* sprite's texture identity as sort key.
C11_OneItemPerSprite ==
  (QueueOver /\ view_uniforms) =>
     \A v \in views : phases[v] = [k \in 1..N |-> ExpectedItem(k)]

\* C16: on a cache miss the GPU image of an extracted sprite is always
\* there: queue_sprites never panics.
C16_NoQueuePanic == ~(stage = "queue" /\ panicked)

\* the quotient <<numerator, denominator>> is the number x
QuotientIs(q, x) == q[2] # 0 /\ q[1] = x * q[2]
\* the UV of a vertex is the point (x, y)
UVIs(vertex, x, y) == QuotientIs(vertex.uv[1], x) /\ QuotientIs(vertex.uv[2], y)

\* the frame's only sprite is a plain sprite of the 64 x 64 image without a
\* custom size and with the identity transform
OnePlainSprite64 ==
  /\ Prepared /\ N = 1
  /\ extracted_sprites[1].atlas_size = None
  /\ extracted_sprites[1].rect = Rect(Vec2(0, 0), Vec2(64, 64))
  /\ extracted_sprites[1].transform = Vec2(0, 0)

\* the four vertices sit at the corners of the 64 x 64 square around the
\* origin (doubled units), in the order bottom-left, top-left, top-right,
\* bottom-right
SquareCorners64 ==
  /\ Len(VertexValues) = 4
  /\ VertexValues[1].position = <<-64, -64, 0>>
  /\ VertexValues[2].position = <<-64, 64, 0>>
  /\ VertexValues[3].position = <<64, 64, 0>>
  /\ VertexValues[4].position = <<64, -64, 0>>

\* C12 as stated: the four vertices are the corners of the square and their
\* UVs are (0,0), (0,1), (1,0), (1,1) in the corner order.
C12_Original ==
  OnePlainSprite64 =>
     /\ SquareCorners64
     /\ UVIs(VertexValues[1], 0, 0)
     /\ UVIs(VertexValues[2], 0, 1)
     /\ UVIs(VertexValues[3], 1, 0)
     /\ UVIs(VertexValues[4], 1, 1)

\* C12 amended: the four vertices are the corners of the square and their
\* UVs are (0,1), (0,0), (1,0), (1,1) in the corner order bottom-left,
\* top-left, top-right, bottom-right.
C12_PlainSpriteQuad ==
  OnePlainSprite64 =>
     /\ SquareCorners64
     /\ UVIs(VertexValues[1], 0, 1)
     /\ UVIs(VertexValues[2], 0, 0)
     /\ UVIs(VertexValues[3], 1, 0)
     /\ UVIs(VertexValues[4], 1, 1)

C12_Witness == OnePlainSprite64 /\ Len(VertexValues) = 4

\* the corner of a rect that belongs to quad corner c (1-based):
\* bottom-left, top-left, top-right, bottom-right
RectCorner(r, c) ==
  IF c = 1 THEN Vec2(r.min[1], r.max[2])
  ELSE IF c = 2 THEN r.min
  ELSE IF c = 3 THEN Vec2(r.max[1], r.min[2])
  ELSE r.max

\* the quotient <<numerator, denominator>> is a number of [0, 1]
InUnit(q) ==
  /\ q[2] # 0
  /\ IF q[2] > 0 THEN 0 <= q[1] /\ q[1] <= q[2] ELSE q[2] <= q[1] /\ q[1] <= 0

\* the vertex of corner c (1-based) of the sprite at list position i (1-based)
VertexOf(i, c) == VertexValues[4 * (i - 1) + c]

\* the UV of the vertex is corner / divisor, component by component
UVIsQuotient(vertex, corner, divisor) ==
  vertex.uv = <<<<corner[1], divisor[1]>>, <<corner[2], divisor[2]>>>>

\* with an atlas size, every UV of the sprite at position i is the rect
\* corner over the atlas size; the min corner of (32,32)-(96,96) in the
\* 256 x 256 atlas is (0.125, 0.125)
AtlasUVs(i) ==
  LET s == extracted_sprites[i] IN
  /\ \A c \in 1..4 : UVIsQuotient(VertexOf(i, c), RectCorner(s.rect, c), unwrap(s.atlas_size))
  /\ (s.rect = Rect(Vec2(32, 32), Vec2(96, 96)) /\ s.atlas_size = Some(Vec2(256, 256))) =>
        /\ 8 * VertexOf(i, 2).uv[1][1] = VertexOf(i, 2).uv[1][2]
        /\ 8 * VertexOf(i, 2).uv[2][1] = VertexOf(i, 2).uv[2][2]

\* C13 as stated: with an atlas size the UVs are corner / atlas_size; without
\* one the divisor is rect.max and the UVs lie in [0,1] x [0,1].
C13_Original ==
  (Prepared /\ N >= 1) =>
     \A i \in 1..N :
        LET s == extracted_sprites[i] IN
        IF s.atlas_size # None THEN AtlasUVs(i)
        ELSE \A c \in 1..4 :
               /\ UVIsQuotient(VertexOf(i, c), RectCorner(s.rect, c), s.rect.max)
               /\ InUnit(VertexOf(i, c).uv[1]) /\ InUnit(VertexOf(i, c).uv[2])

\* C13 amended: with an atlas size the UVs are corner / atlas_size; without
\* one the divisor is rect.max, and the UVs lie in [0,1] x [0,1] when both
\* components of rect.max are non-zero.
C13_UVNormalisation ==
  (Prepared /\ N >= 1) =>
     \A i \in 1..N :
        LET s == extracted_sprites[i] IN
        IF s.atlas_size # None THEN AtlasUVs(i)
        ELSE \A c \in 1..4 :
               /\ UVIsQuotient(VertexOf(i, c), RectCorner(s.rect, c), s.rect.max)
               /\ (s.rect.max[1] # 0 /\ s.rect.max[2] # 0) =>
                     InUnit(VertexOf(i, c).uv[1]) /\ InUnit(VertexOf(i, c).uv[2])

\* an atlas sprite of the rect (32,32)-(96,96) and a plain sprite are prepared
C13_Witness ==
  /\ Prepared /\ N >= 2 /\ Len(VertexValues) = 4 * N
  /\ \E i \in 1..N : /\ extracted_sprites[i].atlas_size = Some(Vec2(256, 256))
                     /\ extracted_sprites[i].rect = Rect(Vec2(32, 32), Vec2(96, 96))
  /\ \E i \in 1..N : /\ extracted_sprites[i].atlas_size = None
                     /\ extracted_sprites[i].rect.max[1] # 0
                     /\ extracted_sprites[i].rect.max[2] # 0

\* the <<entity, vertex_index>> pairs of the frame's records
Batch(sprites) == {<<sprites[k].entity, sprites[k].vertex_index>> : k \in DOMAIN sprites}

\* C14: on an unchanged scene the prepare_sprites of a later frame leaves in
\* the vertex and index buffers the contents the frame before left there,
\* and gives every sprite the batch index it had in the frame before.
C14_Idempotent ==
  [][(stage = "prepare" /\ frame >= 2 /\ stage' = "queue") =>
        /\ sprite_meta'.vertices.values = sprite_meta.vertices.values
        /\ sprite_meta'.indices.values = sprite_meta.indices.values
        /\ Batch(extracted_sprites') = prev_batch]_vars

\* the second frame has prepared two sprites that the first frame prepared
C14_Witness ==
  /\ stage = "queue" /\ frame >= 2 /\ N >= 2
  /\ Batch(extracted_sprites) = prev_batch
  /\ Len(VertexValues) = 4 * N

\* the vertices of the frame's records alone, in list order
FrameVertices ==
  [j \in 1..(4 * N) |->
     SpriteVertex(extracted_sprites[((j - 1) \div 4) + 1], ((j - 1) % 4) + 1)]

\* the indices of the frame's records alone, in list order
FrameIndices ==
  [j \in 1..(6 * N) |-> 4 * ((j - 1) \div 6) + quad_indices[((j - 1) % 6) + 1]]

\* C15 as stated: after the preparation of every frame the two buffers hold
\* what the frame's records give and nothing else.
C15_Original ==
  Prepared => VertexValues = FrameVertices /\ IndexValues = FrameIndices

\* C15: after the preparation of every frame that extracted one sprite or
\* more, the two buffers hold the vertices and indices of that frame's
\* records and nothing of an earlier frame.
C15_NoCrossFrameReuse ==
  (Prepared /\ N >= 1) => VertexValues = FrameVertices /\ IndexValues = FrameIndices

\* a later frame has prepared fewer sprites than the frame before it
C15_Witness ==
  /\ Prepared /\ frame >= 2 /\ N >= 1
  /\ Cardinality(prev_batch) > N
  /\ Len(VertexValues) = 4 * N

\* C17: a call of DrawSprite::draw for a view without a uniform-offset record
\* or for an entity without an ExtractedSprite record panics and adds no
\* command to the pass, whether the pipeline is compiled or not.
C17_FatalBeforePipeline ==
  [][\A view \in Views, item \in DrawItems :
       (draw_item(view, item)
          /\ (view \notin view_uniform_offsets \/ ~HasRecord(item.entity)))
       => (panicked' /\ pass' = pass)]_vars

\* the draw function was called while the pipeline was not compiled and
\* either a view had no offset record or an entity no sprite record; it
\* panicked with an empty pass
C17_Witness ==
  /\ stage = "cleanup" /\ panicked /\ ~pipeline_ready
  /\ pass = <<>>
  /\ (view_uniform_offsets = {} \/ \E e \in Entities : ~HasRecord(e))

\* C18: from the end of prepare_sprites to the end of the draw stage, no step
\* of queue_sprites or DrawSprite::draw changes a sprite's record or the
\* contents of the vertex and index buffers, and no step of the draw stage
\* changes the bind-group cache or the phases.
C18_NoMutationAfterHandoff ==
  [][/\ stage \in {"queue", "draw"} =>
          /\ extracted_sprites' = extracted_sprites
          /\ sprite_meta'.vertices.values = sprite_meta.vertices.values
          /\ sprite_meta'.indices.values = sprite_meta.indices.values
     /\ stage = "draw" =>
          /\ image_bind_groups' = image_bind_groups
          /\ phases' = phases]_vars

\* a frame with sprites was prepared, queued with a view bind group and drawn
C18_Witness ==
  /\ stage = "cleanup" /\ N >= 1
  /\ Len(VertexValues) = 4 * N
  /\ sprite_meta.view_bind_group # None
  /\ DrawCommands # {}

\* the item of a view's phase has what DrawSprite::draw unwraps and reads
Drawable(view, item) ==
  /\ HasRecord(item.entity)
  /\ sprite_meta.vertices.buffer
  /\ sprite_meta.indices.buffer
  /\ sprite_meta.view_bind_group # None
  /\ \A k \in SpriteOf(item.entity) :
       /\ extracted_sprites[k].handle \in DOMAIN image_bind_groups
       /\ extracted_sprites[k].vertex_index * 6 + 6 <= Len(IndexValues)
  /\ view \in view_uniform_offsets => ~DrawSprite(view, item).panicked

\* C19: in the draw stage of a frame every item queue_sprites put into a
\* phase finds the two buffers, the view bind group, the bind group of its
\* texture in the cache and its six indices inside the index buffer, and no
\* draw of the frame has panicked.
C19_QueuedItemsDrawable ==
  stage \in {"draw", "cleanup"} =>
    /\ ~panicked
    /\ \A view \in Views : \A k \in DOMAIN phases[view] : Drawable(view, phases[view][k])

\* a view's phase of two items was drawn with a compiled pipeline
C19_Witness ==
  /\ stage = "cleanup" /\ pipeline_ready
  /\ \E view \in views :
       /\ Len(phases[view]) >= 2
       /\ drawn[view] = Len(phases[view])
  /\ Cardinality(DrawCommands) >= 2

\* the entity's index is past the end of its atlas' table of sub-rects
IndexOutOfRange(e) ==
  unwrap(scene[e]).index >= Len(TextureAtlas(unwrap(scene[e]).handle).textures)

\* C20: a call of extract_atlases that meets a loaded atlas sprite whose
\* index is outside the atlas' table panics and emits no record at all; a
\* call that meets none emits a record for every loaded atlas sprite, each
\* with the sub-rect at its index.
C20_OutOfRangeAborts ==
  [][stage = "extract_atlases" =>
       IF \E e \in Entities : IsAtlas(e) /\ AssetLoaded(e) /\ IndexOutOfRange(e)
       THEN /\ panicked'
            /\ extracted_sprites' = extracted_sprites
            /\ stage' = stage
       ELSE /\ ~panicked'
            /\ \A e \in Entities :
                 (\E k \in DOMAIN extracted_sprites' : extracted_sprites'[k].entity = e)
                   <=> (IsAtlas(e) /\ AssetLoaded(e))
            /\ \A k \in DOMAIN extracted_sprites' :
                 LET c == unwrap(scene[extracted_sprites'[k].entity])
                 IN extracted_sprites'[k].rect = TextureAtlas(c.handle).textures[c.index + 1]]_vars

\* extract_atlases panicked on one atlas sprite and the frame has no record,
\* although another atlas sprite of the same loaded atlas has a valid index
C20_Witness ==
  /\ stage = "extract_atlases" /\ panicked /\ N = 0
  /\ \E e \in Entities : IsAtlas(e) /\ AssetLoaded(e) /\ IndexOutOfRange(e)
  /\ \E e \in Entities : IsAtlas(e) /\ AssetLoaded(e) /\ ~IndexOutOfRange(e)

====
